---- MODULE Spec2Model ----
(***************************************************************************)
(* Model of the job orchestration subsystem (backend/app.py start_job,     *)
(* backend/training_service.py run_training and MetricsLoggerCallback), of *)
(* the single-slot inference model cache (backend/llm_service.py           *)
(* load_model and generate_text) and of the error-analysis agent           *)
(* (backend/app.py handle_exception, backend/agent_service.py).            *)
(*                                                                         *)
(* A worker process is modelled from the entry of run_training(args): the  *)
(* imports of training_service.py, create_app(), process and thread        *)
(* creation and the store's commits are taken to succeed. Library calls    *)
(* (from_pretrained, TextDataset, TrainingArguments, the model call)       *)
(* either return or raise, as the environment decides.                     *)
(*                                                                         *)
(* The specifications share the variables:                                 *)
(*   Spec       the launcher and the worker processes it spawns;           *)
(*   SinkSpec   MetricsLoggerCallback.on_log applied to the record of a    *)
(*              job the worker has committed as running;                   *)
(*   CacheSpec  the threads of the serving process calling generate_text;  *)
(*   AgentSpec  the fault handler and the analysis threads it starts,      *)
(*              which call generate_text on the shared cache;              *)
(*   ParseSpec  the parse and store of a model response by analyze_error;  *)
(*   StraySpec  a worker started from a command line, whose job id may     *)
(*              have no row.                                               *)
(***************************************************************************)
EXTENDS Integers, Sequences, FiniteSets, TLC

(* ---------------------------------------------------------------- bounds *)
\* number of submissions the launcher accepts in one run of the model
MaxJobs == 1
\* number of LLMModel rows; ids are 1..MaxModels, MaxModels + 1 is never registered
MaxModels == 2
\* number of Dataset rows; ids are 1..MaxDatasets, MaxDatasets + 1 has no row
MaxDatasets == 1
\* number of progress events delivered to a metrics sink
MaxEvents == 4
\* number of generate_text calls the serving process is sent
MaxCalls == 3
\* number of request faults the fault handler records
MaxErrors == 1
\* length of a model response, in tokens
MaxLen == 3
ModelIds == 1..(MaxModels + 1)
DatasetIds == 1..(MaxDatasets + 1)
\* the threads of the serving process that call generate_text: a request thread
\* of chat_endpoint and the background thread of analyze_error_async
Threads == {"chat", "agent"}

VARIABLES
    \* ---- persistent store (the database)
    nModels,      \* LLMModel rows are the ids 1..nModels
    jobs,         \* TrainingJob table: sequence of rows, the id is the index
    \* ---- launcher (start_job handler) and worker processes
    launch,       \* the start_job request in progress
    workers,      \* the worker processes spawned so far
    \* ---- metrics sink harness
    delivered,    \* per job id: the field maps passed to its on_log, in invocation order
    \* ---- serving process: the model cache and the threads using it
    model_cache,  \* llm_service.model_cache, a dict: a function on its keys
    th,           \* per thread: position in generate_text / load_model, locals
    last,         \* the generate_text call that ended most recently
    raced,        \* TRUE once two generate_text calls were in flight together
    ncalls,       \* number of generate_text calls entered so far
    \* ---- serving process: the fault handler and the analysis threads
    errors,       \* CapturedError table: sequence of rows, the id is the index
    handler,      \* the handle_exception call in progress
    agents        \* the analysis threads started so far, one per triggered analysis

jobVars == <<jobs, launch, workers>>
cacheVars == <<model_cache, th, last, raced, ncalls>>
agentVars == <<errors, handler, agents>>
vars == <<nModels, jobs, launch, workers, delivered, model_cache, th, last, raced, ncalls,
          errors, handler, agents>>

(* ------------------------------------------------------------ the store *)
\* A nullable column is <<>> (NULL) or <<v>>.
NULL == <<>>
Some(v) == <<v>>
IsNull(c) == c = <<>>
Val(c) == c[1]

ModelExists(m) == m \in 1..nModels
DatasetExists(d) == d \in 1..MaxDatasets
JobExists(j) == j \in 1..Len(jobs)

\* NewJob with completed_at given created_at's server default (the time of insert)
NewJobStamped(model_id, dataset_id, settings) ==
    [model_id |-> model_id, dataset_id |-> dataset_id, settings |-> settings,
     status |-> "pending", completed_at |-> <<1>>, logs |-> <<>>, metrics |-> <<>>]

\* models.py TrainingJob: status defaults to 'pending', the nullable columns to NULL
NewJob(model_id, dataset_id, settings) ==
    [model_id |-> model_id, dataset_id |-> dataset_id, settings |-> settings,
     status |-> "pending", completed_at |-> NULL, logs |-> NULL, metrics |-> NULL]

\* text appended to a text column: `logs += line` raises TypeError on NULL
CanAppend(logs) == ~IsNull(logs)
Append1(logs, line) == Some(Append(Val(logs), line))

(* ------------------------------------------------- launcher: start_job *)
\* request bodies the launcher is sent; 0 stands for an absent eval_dataset_id
\* (data.get('eval_dataset_id') is falsy for both)
Epochs == {1, 2}
Payloads ==
    [model_id : {1, MaxModels + 1}, dataset_id : DatasetIds,
     num_train_epochs : Epochs, per_device_train_batch_size : {1},
     eval_dataset_id : {0} \cup DatasetIds]

Idle == [pc |-> "idle", job_id |-> 0, data |-> <<>>]

\* app.py 228-234: build the settings, add the row (status pending), commit
StartJobCommit(data) ==
    /\ launch.pc = "idle"
    /\ Len(jobs) < MaxJobs
    /\ LET settings == [num_train_epochs |-> data.num_train_epochs,
                        per_device_train_batch_size |-> data.per_device_train_batch_size]
       IN  jobs' = Append(jobs, NewJob(data.model_id, data.dataset_id, settings))
    /\ launch' = [pc |-> "committed", job_id |-> Len(jobs) + 1, data |-> Some(data)]
    /\ UNCHANGED <<nModels, workers, delivered, cacheVars, agentVars>>

\* NewWorker with a job id other than the committed row's on the command line
NewWorkerOtherJob(job_id, data) ==
    [job_id |-> job_id + 1,
     num_train_epochs |-> data.num_train_epochs,
     per_device_train_batch_size |-> data.per_device_train_batch_size,
     eval_dataset_id |-> data.eval_dataset_id,
     pc |-> "start", exc |-> "none", fault |-> FALSE]

\* the process subprocess.Popen starts: training_service.py <job_id> --num_train_epochs ..
NewWorker(job_id, data) ==
    [job_id |-> job_id,
     num_train_epochs |-> data.num_train_epochs,
     per_device_train_batch_size |-> data.per_device_train_batch_size,
     eval_dataset_id |-> data.eval_dataset_id,
     pc |-> "start", exc |-> "none", fault |-> FALSE]

\* app.py 235-240: build the command line from job.id and the settings, Popen
StartJobSpawn ==
    /\ launch.pc = "committed"
    /\ workers' = Append(workers, NewWorker(launch.job_id, Val(launch.data)))
    /\ launch' = [launch EXCEPT !.pc = "spawned"]
    /\ UNCHANGED <<nModels, jobs, delivered, cacheVars, agentVars>>

\* StartJobReturn after Popen.wait(): the response is held until the worker ends
StartJobReturnWaits ==
    /\ launch.pc = "spawned"
    /\ \A w \in 1..Len(workers) : workers[w].pc \in {"exited", "crashed"}
    /\ launch' = [pc |-> "idle", job_id |-> 0, data |-> <<>>]
    /\ UNCHANGED <<nModels, jobs, workers, delivered, cacheVars, agentVars>>

\* app.py 241: respond 202 with the job id; the handler is done
StartJobReturn ==
    /\ launch.pc = "spawned"
    /\ launch' = Idle
    /\ UNCHANGED <<nModels, jobs, workers, delivered, cacheVars, agentVars>>

(* ------------------------------------------- worker: run_training(args) *)
\* The names bound when a statement of run_training runs: its parameter and
\* locals, and the globals of training_service.py run as __main__.
RunTrainingNames ==
    {"args", "app", "job", "base_model_path", "tokenizer", "model", "train_dataset",
     "data_collator", "eval_dataset", "eval_dataset_record", "output_dir",
     "training_args", "metrics_callback", "trainer", "e",
     "os", "sys", "torch", "argparse", "np", "evaluate", "create_app", "db",
     "TrainingJob", "LLMModel", "Dataset", "MetricsLoggerCallback",
     "accuracy_metric", "perplexity_metric", "compute_metrics", "run_training",
     "parser"}
\* evaluating a name that is not bound raises NameError
Resolves(name) == name \in RunTrainingNames

\* lines of the logs text
StartLine == <<"Training started...">>
TrainerLine == <<"Trainer initialized. Starting training...">>
FinishLine(output_dir) == <<"Training finished successfully. Model saved to", output_dir>>
ErrorLine(e) == <<"ERROR:", e>>
ProgressLine(fields) == <<"str(logs)", fields>>

SetWorker(w, pc, exc, fault) ==
    workers' = [workers EXCEPT ![w].pc = pc, ![w].exc = exc,
                               ![w].fault = workers[w].fault \/ fault]
WJob(w) == jobs[workers[w].job_id]

\* WorkerFetchJob that inserts a row for the id it did not find
WorkerFetchJobCreates(w) ==
    /\ workers[w].pc = "start"
    /\ IF JobExists(workers[w].job_id)
       THEN SetWorker(w, "found", "none", FALSE) /\ jobs' = jobs
       ELSE /\ SetWorker(w, "exited", "none", FALSE)
            /\ jobs' = Append(jobs, NewJob(1, 1, [num_train_epochs |-> 1,
                                                 per_device_train_batch_size |-> 1]))
    /\ UNCHANGED <<nModels, launch, delivered, cacheVars, agentVars>>

\* training_service.py 75-78: fetch the row; when there is none, print and return
WorkerFetchJob(w) ==
    /\ workers[w].pc = "start"
    /\ IF JobExists(workers[w].job_id)
       THEN SetWorker(w, "found", "none", FALSE)
       ELSE SetWorker(w, "exited", "none", FALSE)
    /\ UNCHANGED <<nModels, jobs, launch, delivered, cacheVars, agentVars>>

\* RunningRecord writing the wrong status constant
RunningRecordWrongStatus(job) ==
    [job EXCEPT !.status = "completed", !.logs = <<(<<(<<"Training started...">>)>>)>>]

\* RunningRecord without the status of line 82
RunningRecordKeepsPending(job) == [job EXCEPT !.logs = <<(<<(<<"Training started...">>)>>)>>]

\* training_service.py 82-83
RunningRecord(job) == [job EXCEPT !.status = "running", !.logs = Some(<<StartLine>>)]

\* training_service.py 80-84: status running, logs reset to the start marker,
\* commit (the store is taken to accept every commit)
WorkerCommitRunning(w) ==
    /\ workers[w].pc = "found"
    /\ jobs' = [jobs EXCEPT ![workers[w].job_id] = RunningRecord(@)]
    /\ SetWorker(w, "setup_model", "none", FALSE)
    /\ UNCHANGED <<nModels, launch, delivered, cacheVars, agentVars>>

\* training_service.py 88-97: job.model is None when the row is missing
\* (AttributeError); from_pretrained may raise
WorkerLoadModel(w) ==
    /\ workers[w].pc = "setup_model"
    /\ IF ~ModelExists(WJob(w).model_id)
       THEN SetWorker(w, "except", "AttributeError", FALSE)
       ELSE \E load_ok \in BOOLEAN :
              IF load_ok THEN SetWorker(w, "setup_dataset", "none", FALSE)
                         ELSE SetWorker(w, "except", "OSError", TRUE)
    /\ UNCHANGED <<nModels, jobs, launch, delivered, cacheVars, agentVars>>

\* training_service.py 99-108: job.dataset is None when the row is missing
\* (AttributeError); TextDataset may raise
WorkerLoadDataset(w) ==
    /\ workers[w].pc = "setup_dataset"
    /\ IF ~DatasetExists(WJob(w).dataset_id)
       THEN SetWorker(w, "except", "AttributeError", FALSE)
       ELSE \E load_ok \in BOOLEAN :
              IF load_ok THEN SetWorker(w, "setup_eval", "none", FALSE)
                         ELSE SetWorker(w, "except", "OSError", TRUE)
    /\ UNCHANGED <<nModels, jobs, launch, delivered, cacheVars, agentVars>>

\* training_service.py 110-119: the evaluation dataset comes from args, and is
\* loaded only when its row exists
WorkerLoadEval(w) ==
    /\ workers[w].pc = "setup_eval"
    /\ IF workers[w].eval_dataset_id # 0 /\ DatasetExists(workers[w].eval_dataset_id)
       THEN \E load_ok \in BOOLEAN :
              IF load_ok THEN SetWorker(w, "configure", "none", FALSE)
                         ELSE SetWorker(w, "except", "OSError", TRUE)
       ELSE SetWorker(w, "configure", "none", FALSE)
    /\ UNCHANGED <<nModels, jobs, launch, delivered, cacheVars, agentVars>>

\* training_service.py 121-134: output_dir and TrainingArguments (may raise)
WorkerConfigure(w) ==
    /\ workers[w].pc = "configure"
    /\ \E args_ok \in BOOLEAN :
         IF args_ok THEN SetWorker(w, "callback", "none", FALSE)
                    ELSE SetWorker(w, "except", "ValueError", TRUE)
    /\ UNCHANGED <<nModels, jobs, launch, delivered, cacheVars, agentVars>>

\* training_service.py 136-137: MetricsLoggerCallback(job_id=job_id) evaluates
\* the name job_id
WorkerMakeCallback(w) ==
    /\ workers[w].pc = "callback"
    /\ IF Resolves("job_id")
       THEN SetWorker(w, "trainer", "none", FALSE)
       ELSE SetWorker(w, "except", "NameError", FALSE)
    /\ UNCHANGED <<nModels, jobs, launch, delivered, cacheVars, agentVars>>

\* training_service.py 169-170
FailedRecord(job, e) ==
    [job EXCEPT !.status = "failed", !.logs = Append1(@, ErrorLine(e))]

\* training_service.py 166-171: the handler prints an f-string that evaluates
\* the name job_id before it touches the record; an exception raised inside
\* the handler leaves run_training and ends the process
WorkerExcept(w) ==
    /\ workers[w].pc = "except"
    /\ IF Resolves("job_id")
       THEN /\ jobs' = [jobs EXCEPT ![workers[w].job_id] = FailedRecord(@, workers[w].exc)]
            /\ SetWorker(w, "exited", workers[w].exc, FALSE)
       ELSE /\ jobs' = jobs
            /\ SetWorker(w, "crashed", "NameError", FALSE)
    /\ UNCHANGED <<nModels, launch, delivered, cacheVars, agentVars>>

\* training_service.py 139-164 run only once line 137 has returned: the Trainer
\* is built and the start of training logged (139-151), trainer.train() calls
\* on_log per progress event (153), the model is saved and the completion
\* committed (157-162).
\* training_service.py 150
TrainerRecord(job) == [job EXCEPT !.logs = Append1(@, TrainerLine)]
\* training_service.py 159-161; db.func.now() is the time of the commit
CompletedRecord(job, id, now) ==
    [job EXCEPT !.status = "completed",
                !.logs = Append1(@, FinishLine(<<"models", job.model_id, "_finetuned_job_", id>>)),
                !.completed_at = Some(now)]

(* ------------------------- metrics sink: MetricsLoggerCallback.on_log *)
\* progress events: the logs dict the Trainer passes to on_log
FieldMaps == {[epoch |-> 1, loss |-> 3], [epoch |-> 2, loss |-> 2], [epoch |-> 2, loss |-> 3]}

\* OnLogRecord assigning the new entry instead of the extended list
OnLogRecordReplace(job, fields) ==
    [job EXCEPT !.metrics = <<(<<fields>>)>>,
                !.logs = <<Append(job.logs[1], <<"str(logs)", fields>>)>>]

\* OnLogRecord that also ends the job
OnLogRecordEndsJob(job, fields) ==
    [job EXCEPT !.metrics = <<(IF job.metrics = <<>> THEN <<>> ELSE job.metrics[1]) \o <<fields>>>>,
                !.logs = <<Append(job.logs[1], <<"str(logs)", fields>>)>>,
                !.status = "completed"]

\* OnLogRecord without line 31
OnLogRecordNoLine(job, fields) ==
    [job EXCEPT !.metrics = <<(IF job.metrics = <<>> THEN <<>> ELSE job.metrics[1]) \o <<fields>>>>]

\* training_service.py 22-31: metrics NULL becomes [], the fields are appended
\* to a copy of the list, str(fields) and a newline are appended to logs
OnLogRecord(job, fields) ==
    LET current_metrics == IF IsNull(job.metrics) THEN <<>> ELSE Val(job.metrics)
    IN  [job EXCEPT !.metrics = Some(Append(current_metrics, fields)),
                    !.logs = Append1(@, ProgressLine(fields))]

\* training_service.py 16-33: on_log(logs) of the callback made for job_id.
\* logs is None (has_fields = FALSE): nothing. No row: nothing. Otherwise the
\* row is fetched, changed and committed; `job.logs +=` raises TypeError on a
\* NULL logs before the commit, so nothing is stored.
OnLog(job_id, has_fields, fields) ==
    /\ Len(delivered[job_id]) < MaxEvents
    /\ delivered' = IF has_fields
                    THEN [delivered EXCEPT ![job_id] = Append(@, fields)]
                    ELSE delivered
    /\ IF has_fields /\ JobExists(job_id) /\ CanAppend(jobs[job_id].logs)
       THEN jobs' = [jobs EXCEPT ![job_id] = OnLogRecord(@, fields)]
       ELSE jobs' = jobs
    /\ UNCHANGED <<nModels, launch, workers, cacheVars, agentVars>>

(* ------------------------------------- model cache: llm_service.py *)
\* model_cache is a dict: a function on the keys it holds. None is 0, the
\* device string is 1, and the model instance and the tokenizer loaded from the
\* artifact of LLMModel row m are both written m.
None == 0
Device == 1
\* llm_service.py 12-17: the cache as the module is imported
EmptyCache == [k \in {"model_id", "model", "tokenizer", "device"} |->
                 IF k = "device" THEN Device ELSE None]
HasKey(d, k) == k \in DOMAIN d
\* d[k] = v
SetKey(d, k, v) == [x \in DOMAIN d \cup {k} |-> IF x = k THEN v ELSE d[x]]
\* d.clear(): no key is left, "device" and "model_id" included
Cleared(d) == [x \in {} |-> None]

\* the slot holds model m: id, instance and tokenizer of m
SlotHolds(d, m) ==
    /\ {"model_id", "model", "tokenizer"} \subseteq DOMAIN d
    /\ d["model_id"] = m /\ d["model"] = m /\ d["tokenizer"] = m

\* the model ids a thread asks for: chat_endpoint passes the request's model_id
\* (app.py 145, 156), analyze_error the id of the first LLMModel row
\* (agent_service.py 38, 64)
CallArgs(t) == IF t = "agent" THEN {1} ELSE ModelIds

NoCall == [m |-> None, res |-> "none", alone |-> TRUE, fault |-> FALSE, loads |-> 0]
ThreadIdle ==
    [pc |-> "idle", m |-> None, tokenizer |-> None, model |-> None,
     g_model |-> None, g_tokenizer |-> None, snap |-> <<>>, prev |-> NoCall,
     alone |-> TRUE, ev |-> <<>>, fault |-> FALSE]
InFlight(t) == th[t].pc # "idle"
\* the number of model loads among the cache events ev of one call
Loads(ev) == Cardinality({i \in 1..Len(ev) : ev[i] = <<"load">>})

Goto(t, pc) == th' = [th EXCEPT ![t].pc = pc]

\* the call of thread t ends with res (a return, or the exception that leaves it)
Finish(t, res, fault) ==
    /\ last' = [t |-> t, m |-> th[t].m, res |-> res, alone |-> th[t].alone,
                fault |-> th[t].fault \/ fault, ev |-> th[t].ev,
                snap |-> th[t].snap, prev |-> th[t].prev]
    /\ th' = [th EXCEPT ![t] = ThreadIdle]

\* llm_service.py 94-96: thread t enters generate_text(m, ..), which calls load_model
EnterGenerate(t, m) ==
    /\ th[t].pc = "idle"
    /\ LET others == {u \in (DOMAIN th) \ {t} : InFlight(u)}
       IN  /\ th' = [u \in DOMAIN th |->
                       IF u = t
                       THEN [th[t] EXCEPT !.pc = "L65", !.m = m, !.snap = Some(model_cache),
                                          !.prev = [m |-> last.m, res |-> last.res,
                                                    alone |-> last.alone, fault |-> last.fault,
                                                    loads |-> Loads(last.ev)],
                                          !.alone = (others = {})]
                       ELSE IF u \in others THEN [th[u] EXCEPT !.alone = FALSE]
                       ELSE th[u]]
           /\ raced' = (raced \/ others # {})

\* app.py 156: a chat request calls generate_text(model_id, prompt_text)
GenerateText(t, m) ==
    /\ ncalls < MaxCalls
    /\ ncalls' = ncalls + 1
    /\ EnterGenerate(t, m)
    /\ UNCHANGED <<model_cache, last, nModels, jobVars, delivered>>

\* LoadCheckId without the early return of line 66
LoadCheckIdNoReturn(t) ==
    /\ th[t].pc = "L65"
    /\ IF "model_id" \notin DOMAIN model_cache
       THEN /\ last' = [t |-> t, m |-> th[t].m, res |-> "KeyError", alone |-> th[t].alone,
                        fault |-> th[t].fault, ev |-> th[t].ev,
                        snap |-> th[t].snap, prev |-> th[t].prev]
            /\ th' = [th EXCEPT ![t] = ThreadIdle]
       ELSE th' = [th EXCEPT ![t].pc = "L68"] /\ last' = last
    /\ UNCHANGED <<model_cache, raced, ncalls, nModels, jobVars, delivered>>

\* llm_service.py 65-66: the slot already holds model_id: return
LoadCheckId(t) ==
    /\ th[t].pc = "L65"
    /\ IF ~HasKey(model_cache, "model_id") THEN Finish(t, "KeyError", FALSE)
       ELSE IF model_cache["model_id"] = th[t].m THEN Goto(t, "G98") /\ last' = last
       ELSE Goto(t, "L68") /\ last' = last
    /\ UNCHANGED <<model_cache, raced, ncalls, nModels, jobVars, delivered>>

\* llm_service.py 68: is a model loaded
LoadCheckModel(t) ==
    /\ th[t].pc = "L68"
    /\ IF ~HasKey(model_cache, "model") THEN Finish(t, "KeyError", FALSE)
       ELSE IF model_cache["model"] # None THEN Goto(t, "L69") /\ last' = last
       ELSE Goto(t, "L73") /\ last' = last
    /\ UNCHANGED <<model_cache, raced, ncalls, nModels, jobVars, delivered>>

\* llm_service.py 69-71: model_cache.clear(), then the device memory is freed
LoadEvict(t) ==
    /\ th[t].pc = "L69"
    /\ model_cache' = Cleared(model_cache)
    /\ th' = [th EXCEPT ![t].pc = "L73", ![t].ev = Append(@, <<"evict">>)]
    /\ UNCHANGED <<last, raced, ncalls, nModels, jobVars, delivered>>

\* llm_service.py 73-75: the LLMModel row; ValueError when there is none
LoadLookup(t) ==
    /\ th[t].pc = "L73"
    /\ IF ModelExists(th[t].m) THEN Goto(t, "L77") /\ last' = last
       ELSE Finish(t, "NotFound", FALSE)
    /\ UNCHANGED <<model_cache, raced, ncalls, nModels, jobVars, delivered>>

\* llm_service.py 77: the print reads model_cache['device']
LoadPrintDevice(t) ==
    /\ th[t].pc = "L77"
    /\ IF HasKey(model_cache, "device") THEN Goto(t, "L80") /\ last' = last
       ELSE Finish(t, "KeyError", FALSE)
    /\ UNCHANGED <<model_cache, raced, ncalls, nModels, jobVars, delivered>>

\* llm_service.py 79-80, 91-92: the tokenizer is read from the artifact; any
\* exception becomes RuntimeError("Failed to load model ..")
LoadTokenizer(t) ==
    /\ th[t].pc = "L80"
    /\ \E load_ok \in BOOLEAN :
         IF load_ok
         THEN th' = [th EXCEPT ![t].pc = "L81", ![t].tokenizer = th[t].m] /\ last' = last
         ELSE Finish(t, "LoadFailure", TRUE)
    /\ UNCHANGED <<model_cache, raced, ncalls, nModels, jobVars, delivered>>

\* llm_service.py 81-84, 91-92: device_map=model_cache["device"] is read inside
\* the try, then the model is read from the artifact
LoadInstance(t) ==
    /\ th[t].pc = "L81"
    /\ IF ~HasKey(model_cache, "device") THEN Finish(t, "LoadFailure", FALSE)
       ELSE \E load_ok \in BOOLEAN :
              IF load_ok
              THEN /\ th' = [th EXCEPT ![t].pc = "L86", ![t].model = th[t].m,
                                       ![t].ev = Append(@, <<"load">>)]
                   /\ last' = last
              ELSE Finish(t, "LoadFailure", TRUE)
    /\ UNCHANGED <<model_cache, raced, ncalls, nModels, jobVars, delivered>>

\* llm_service.py 86
LoadSetId(t) ==
    /\ th[t].pc = "L86"
    /\ model_cache' = SetKey(model_cache, "model_id", th[t].m)
    /\ Goto(t, "L87")
    /\ UNCHANGED <<last, raced, ncalls, nModels, jobVars, delivered>>

\* llm_service.py 87
LoadSetModel(t) ==
    /\ th[t].pc = "L87"
    /\ model_cache' = SetKey(model_cache, "model", th[t].model)
    /\ Goto(t, "L88")
    /\ UNCHANGED <<last, raced, ncalls, nModels, jobVars, delivered>>

\* llm_service.py 88-90: the tokenizer is stored and load_model returns
LoadSetTokenizer(t) ==
    /\ th[t].pc = "L88"
    /\ model_cache' = SetKey(model_cache, "tokenizer", th[t].tokenizer)
    /\ Goto(t, "G98")
    /\ UNCHANGED <<last, raced, ncalls, nModels, jobVars, delivered>>

\* llm_service.py 98-99: the slot must hold model_id and a model
GenCheck(t) ==
    /\ th[t].pc = "G98"
    /\ IF ~HasKey(model_cache, "model_id") THEN Finish(t, "KeyError", FALSE)
       ELSE IF model_cache["model_id"] # th[t].m THEN Finish(t, "NotLoaded", FALSE)
       ELSE IF ~HasKey(model_cache, "model") THEN Finish(t, "KeyError", FALSE)
       ELSE IF model_cache["model"] = None THEN Finish(t, "NotLoaded", FALSE)
       ELSE Goto(t, "G101") /\ last' = last
    /\ UNCHANGED <<model_cache, raced, ncalls, nModels, jobVars, delivered>>

\* llm_service.py 101
GenReadModel(t) ==
    /\ th[t].pc = "G101"
    /\ IF HasKey(model_cache, "model")
       THEN th' = [th EXCEPT ![t].pc = "G102", ![t].g_model = model_cache["model"]]
            /\ last' = last
       ELSE Finish(t, "KeyError", FALSE)
    /\ UNCHANGED <<model_cache, raced, ncalls, nModels, jobVars, delivered>>

\* llm_service.py 102
GenReadTokenizer(t) ==
    /\ th[t].pc = "G102"
    /\ IF HasKey(model_cache, "tokenizer")
       THEN th' = [th EXCEPT ![t].pc = "G103", ![t].g_tokenizer = model_cache["tokenizer"]]
            /\ last' = last
       ELSE Finish(t, "KeyError", FALSE)
    /\ UNCHANGED <<model_cache, raced, ncalls, nModels, jobVars, delivered>>

\* llm_service.py 103-105
GenReadDevice(t) ==
    /\ th[t].pc = "G103"
    /\ IF HasKey(model_cache, "device") THEN Goto(t, "G107") /\ last' = last
       ELSE Finish(t, "KeyError", FALSE)
    /\ UNCHANGED <<model_cache, raced, ncalls, nModels, jobVars, delivered>>

\* GenInfer that goes back to the slot check when the model call raises
GenInferRetries(t) ==
    /\ th[t].pc = "G107"
    /\ IF th[t].g_tokenizer = None \/ th[t].g_model = None
       THEN Finish(t, "GenerationFailure", FALSE)
       ELSE \E run_ok \in BOOLEAN :
              IF run_ok THEN Finish(t, "ok", FALSE)
                        ELSE Goto(t, "G98") /\ last' = last
    /\ UNCHANGED <<model_cache, raced, ncalls, nModels, jobVars, delivered>>

\* llm_service.py 107-113: tokenize, generate, decode; any exception (calling a
\* None tokenizer or model included) becomes RuntimeError("Failed to generate ..")
GenInfer(t) ==
    /\ th[t].pc = "G107"
    /\ IF th[t].g_tokenizer = None \/ th[t].g_model = None
       THEN Finish(t, "GenerationFailure", FALSE)
       ELSE \E run_ok \in BOOLEAN :
              IF run_ok THEN Finish(t, "ok", FALSE)
                        ELSE Finish(t, "GenerationFailure", TRUE)
    /\ UNCHANGED <<model_cache, raced, ncalls, nModels, jobVars, delivered>>

(* --------------------------- error-analysis agent: agent_service.py *)
\* A text is a sequence of tokens: the two section markers, a word and a
\* white-space character. str operations are modelled on tokens.
MarkerE == "EXPLANATION:"
MarkerP == "PROPOSED_FIX:"
Space == " "
Tokens == {MarkerE, MarkerP, "w", Space}
Texts == UNION {[1..n -> Tokens] : n \in 0..MaxLen}
\* llm_service.py 110-111: decoded outputs of the model, one for each way the
\* parse of agent_service.py 70-75 goes, and the empty text
Responses == { <<MarkerE, "w", MarkerP, "w">>, <<MarkerE, "w">>, <<"w">>, <<>> }

\* sub in s
Contains(s, sub) == \E i \in 1..Len(s) : s[i] = sub
\* index of the first occurrence of sub in s
FirstAt(s, sub) == CHOOSE i \in 1..Len(s) : s[i] = sub /\ \A k \in 1..(i - 1) : s[k] # sub
\* s.split(sub, 1) when sub is in s: the text before the first sub and the text after it
Split1(s, sub) == << SubSeq(s, 1, FirstAt(s, sub) - 1), SubSeq(s, FirstAt(s, sub) + 1, Len(s)) >>
\* s.replace(sub, ""): every occurrence is removed
RECURSIVE Replace(_, _)
Replace(s, sub) ==
    IF s = <<>> THEN <<>>
    ELSE IF Head(s) = sub THEN Replace(Tail(s), sub)
    ELSE <<Head(s)>> \o Replace(Tail(s), sub)
\* s.strip(): leading and trailing white space is removed
RECURSIVE LStrip(_)
LStrip(s) == IF s # <<>> /\ Head(s) = Space THEN LStrip(Tail(s)) ELSE s
RECURSIVE RStrip(_)
RStrip(s) == IF s # <<>> /\ s[Len(s)] = Space THEN RStrip(SubSeq(s, 1, Len(s) - 1)) ELSE s
Strip(s) == RStrip(LStrip(s))

NoExplanation == <<"Could not parse explanation.">>
NoFix == <<"Could not parse proposed fix.">>

\* agent_service.py 67-75: the response is cut at the first PROPOSED_FIX:
ParseResponse(llm_response) ==
    IF Contains(llm_response, MarkerP)
    THEN [explanation |-> Strip(Replace(Split1(llm_response, MarkerP)[1], MarkerE)),
          proposed_fix |-> Strip(Split1(llm_response, MarkerP)[2])]
    ELSE IF Contains(llm_response, MarkerE)
    THEN [explanation |-> Strip(Replace(llm_response, MarkerE)), proposed_fix |-> NoFix]
    ELSE [explanation |-> NoExplanation, proposed_fix |-> NoFix]

\* models.py 58-67: status defaults to 'new', analysis and proposed_fix to NULL
NewError == [status |-> "new", analysis |-> NULL, proposed_fix |-> NULL]
ErrorExists(e) == e \in 1..Len(errors)

\* the thread started for the a-th analysis (threading.Thread, agent_service.py 95)
AgentThreadNames == <<"agent", "agent-2", "agent-3">>
AgentThread(a) == AgentThreadNames[a]
AgentThreads == {AgentThread(a) : a \in 1..MaxErrors}

HandlerIdle == [pc |-> "idle", error_id |-> 0]
\* app.py 296-316: a request raised; an HTTPException is returned as it is,
\* anything else is recorded as a CapturedError and committed
HandleExceptionCommit(is_http) ==
    /\ handler.pc = "idle"
    /\ Len(errors) < MaxErrors
    /\ IF is_http
       THEN UNCHANGED <<errors, handler>>
       ELSE /\ errors' = Append(errors, NewError)
            /\ handler' = [pc |-> "L317", error_id |-> Len(errors) + 1]
    /\ UNCHANGED <<agents, nModels, jobVars, delivered, cacheVars>>

\* NewAgent with an id other than the committed row's
NewAgentOtherError(error_id) ==
    [error_id |-> error_id + 1, pc |-> "L15", exc |-> "none", resp |-> <<>>]
NewAgent(error_id) == [error_id |-> error_id, pc |-> "L15", exc |-> "none", resp |-> <<>>]
\* app.py 317, agent_service.py 91-96: a thread is started on analyze_error(id)
HandleExceptionTrigger ==
    /\ handler.pc = "L317"
    /\ agents' = Append(agents, NewAgent(handler.error_id))
    /\ handler' = [handler EXCEPT !.pc = "L318"]
    /\ UNCHANGED <<errors, nModels, jobVars, delivered, cacheVars>>

\* HandleExceptionReturn after Thread.join(): the response is held until the
\* analysis has ended
HandleExceptionReturnWaits ==
    /\ handler.pc = "L318"
    /\ \A a \in 1..Len(agents) : agents[a].pc \in {"returned", "crashed"}
    /\ handler' = [pc |-> "idle", error_id |-> 0]
    /\ UNCHANGED <<errors, agents, nModels, jobVars, delivered, cacheVars>>

\* app.py 318: the 500 response
HandleExceptionReturn ==
    /\ handler.pc = "L318"
    /\ handler' = HandlerIdle
    /\ UNCHANGED <<errors, agents, nModels, jobVars, delivered, cacheVars>>

SetAgent(a, pc, exc) == agents' = [agents EXCEPT ![a].pc = pc, ![a].exc = exc]

\* agent_service.py 12-18: the app context is made, the row fetched; no row: return
AgentFetch(a) ==
    /\ agents[a].pc = "L15"
    /\ IF ErrorExists(agents[a].error_id) THEN SetAgent(a, "L22", "none")
                                          ELSE SetAgent(a, "returned", "none")
    /\ UNCHANGED <<errors, handler, nModels, jobVars, delivered, cacheVars>>

\* the row after line 22
AnalyzingRecordKeepsStatus(error) == error
AnalyzingRecord(error) == [error EXCEPT !.status = "analyzing"]
\* agent_service.py 20-23
AgentCommitAnalyzing(a) ==
    /\ agents[a].pc = "L22"
    /\ errors' = [errors EXCEPT ![agents[a].error_id] = AnalyzingRecord(@)]
    /\ SetAgent(a, "L27", "none")
    /\ UNCHANGED <<handler, nModels, jobVars, delivered, cacheVars>>

\* agent_service.py 25-30: the source file is read; if that raises, source_code
\* is the message of the exception
AgentReadSource(a) ==
    /\ agents[a].pc = "L27"
    /\ SetAgent(a, "L34", "none")
    /\ UNCHANGED <<errors, handler, nModels, jobVars, delivered, cacheVars>>

\* agent_service.py 32-39: the first LLMModel row; RuntimeError when there is none
AgentSelectModel(a) ==
    /\ agents[a].pc = "L34"
    /\ IF nModels = 0 THEN SetAgent(a, "L84", "Unavailable")
                      ELSE SetAgent(a, "G64", "none")
    /\ UNCHANGED <<errors, handler, nModels, jobVars, delivered, cacheVars>>

\* agent_service.py 64: generate_text(models[0].id, prompt, ..) is called
AgentGenerate(a) ==
    /\ agents[a].pc = "G64"
    /\ EnterGenerate(AgentThread(a), 1)
    /\ SetAgent(a, "in_generate", "none")
    /\ UNCHANGED <<errors, handler, model_cache, last, ncalls, nModels, jobVars, delivered>>

\* agent_service.py 64, 84: a step of generate_text by thread t; when it ends a
\* call made by analyze_error, the response text or the exception goes to it
ReturnToCaller(t) ==
    IF \E a \in 1..Len(agents) : AgentThread(a) = t /\ th'[t].pc = "idle"
    THEN LET a == CHOOSE a \in 1..Len(agents) : AgentThread(a) = t
         IN  /\ IF last'.res = "ok"
                THEN \E llm_response \in Responses :
                        agents' = [agents EXCEPT ![a].pc = "L67", ![a].resp = llm_response]
                ELSE SetAgent(a, "L84", last'.res)
             /\ UNCHANGED <<errors, handler>>
    ELSE UNCHANGED agentVars

\* lines 78-79 without the status of line 80
AnalyzedRecordKeepsStatus(error, parsed) ==
    [error EXCEPT !.analysis = Some(parsed.explanation),
                  !.proposed_fix = Some(parsed.proposed_fix)]
\* the row after lines 78-80
AnalyzedRecord(error, parsed) ==
    [error EXCEPT !.analysis = Some(parsed.explanation),
                  !.proposed_fix = Some(parsed.proposed_fix),
                  !.status = "analyzed"]
\* agent_service.py 66-82: the response is parsed and stored, one commit
AgentStore(a) ==
    /\ agents[a].pc = "L67"
    /\ errors' = [errors EXCEPT ![agents[a].error_id] =
                     AnalyzedRecord(@, ParseResponse(agents[a].resp))]
    /\ SetAgent(a, "returned", "none")
    /\ UNCHANGED <<handler, nModels, jobVars, delivered, cacheVars>>

\* the handler of line 84 without its body
FailedAnalysisRecordPass(error, e) == error
\* the row after lines 86-87
FailedAnalysisRecord(error, e) ==
    [error EXCEPT !.status = "analysis_failed",
                  !.analysis = Some(<<"Failed to complete analysis.", e>>)]
\* the names bound in analyze_error when its handler runs: the parameter, the
\* locals assigned before the try, the handler's e, and the module's imports
AnalyzeErrorNames == {"error_id", "app", "error", "e", "db", "traceback", "llm_service",
                      "CapturedError", "create_app", "threading"}
\* agent_service.py 84-88: any Exception raised since line 20. The handler reads
\* error_id and e (85), error (86-87), traceback (87) and db (88); a name that
\* is not bound raises NameError out of analyze_error.
AgentExcept(a) ==
    /\ agents[a].pc = "L84"
    /\ IF {"error_id", "e", "error", "traceback", "db"} \subseteq AnalyzeErrorNames
       THEN /\ errors' = [errors EXCEPT ![agents[a].error_id] =
                             FailedAnalysisRecord(@, agents[a].exc)]
            /\ agents' = [agents EXCEPT ![a].pc = "returned"]
       ELSE /\ errors' = errors
            /\ agents' = [agents EXCEPT ![a].pc = "crashed"]
    /\ UNCHANGED <<handler, nModels, jobVars, delivered, cacheVars>>

(* ------------------------------------------------------- specifications *)
NoEvents == [j \in 1..MaxJobs |-> <<>>]
CacheIdle ==
    /\ model_cache = EmptyCache
    /\ th = [t \in Threads |-> ThreadIdle]
    /\ last = [t |-> "chat", m |-> None, res |-> "none", alone |-> TRUE,
               fault |-> FALSE, ev |-> <<>>, snap |-> <<>>, prev |-> NoCall]
    /\ raced = FALSE
    /\ ncalls = 0
\* no request has faulted yet
AgentIdle ==
    /\ errors = <<>>
    /\ handler = HandlerIdle
    /\ agents = <<>>

\* The launcher and its workers: every model of 1..MaxModels is downloaded, no
\* job was submitted yet.
Init ==
    /\ nModels = MaxModels
    /\ jobs = <<>>
    /\ launch = Idle
    /\ workers = <<>>
    /\ delivered = NoEvents
    /\ CacheIdle
    /\ AgentIdle

Next ==
    \/ \E data \in Payloads : StartJobCommit(data)
    \/ StartJobSpawn
    \/ StartJobReturn
    \/ \E w \in 1..Len(workers) : WorkerFetchJob(w)
    \/ \E w \in 1..Len(workers) : WorkerCommitRunning(w)
    \/ \E w \in 1..Len(workers) : WorkerLoadModel(w)
    \/ \E w \in 1..Len(workers) : WorkerLoadDataset(w)
    \/ \E w \in 1..Len(workers) : WorkerLoadEval(w)
    \/ \E w \in 1..Len(workers) : WorkerConfigure(w)
    \/ \E w \in 1..Len(workers) : WorkerMakeCallback(w)
    \/ \E w \in 1..Len(workers) : WorkerExcept(w)

Spec == Init /\ [][Next]_vars

\* The worker is a process of its own; the operating system runs it until it
\* returns or dies.
FairSpec == Spec /\ WF_vars(Next)

\* The metrics sink of each job during trainer.train(): the rows are as the
\* worker committed them before training (lines 84 and 151).
SinkJob(j) ==
    TrainerRecord(RunningRecord(NewJob(1, 1, [num_train_epochs |-> 1,
                                              per_device_train_batch_size |-> 1])))
SinkInit ==
    /\ nModels = MaxModels
    /\ jobs = [j \in 1..MaxJobs |-> SinkJob(j)]
    /\ launch = Idle
    /\ workers = <<>>
    /\ delivered = NoEvents
    /\ CacheIdle
    /\ AgentIdle

SinkNext ==
    \E j \in 1..MaxJobs : \E has_fields \in BOOLEAN : \E fields \in FieldMaps :
        OnLog(j, has_fields, fields)

SinkSpec == SinkInit /\ [][SinkNext]_vars

\* The serving process: the models 1..MaxModels are downloaded, the cache is as
\* imported, and each thread makes generate_text calls.
CacheInit ==
    /\ nModels = MaxModels
    /\ jobs = <<>>
    /\ launch = Idle
    /\ workers = <<>>
    /\ delivered = NoEvents
    /\ CacheIdle
    /\ AgentIdle

CacheNext ==
    \/ \E t \in Threads : \E m \in CallArgs(t) : GenerateText(t, m) /\ UNCHANGED agentVars
    \/ \E t \in Threads : LoadCheckId(t) /\ UNCHANGED agentVars
    \/ \E t \in Threads : LoadCheckModel(t) /\ UNCHANGED agentVars
    \/ \E t \in Threads : LoadEvict(t) /\ UNCHANGED agentVars
    \/ \E t \in Threads : LoadLookup(t) /\ UNCHANGED agentVars
    \/ \E t \in Threads : LoadPrintDevice(t) /\ UNCHANGED agentVars
    \/ \E t \in Threads : LoadTokenizer(t) /\ UNCHANGED agentVars
    \/ \E t \in Threads : LoadInstance(t) /\ UNCHANGED agentVars
    \/ \E t \in Threads : LoadSetId(t) /\ UNCHANGED agentVars
    \/ \E t \in Threads : LoadSetModel(t) /\ UNCHANGED agentVars
    \/ \E t \in Threads : LoadSetTokenizer(t) /\ UNCHANGED agentVars
    \/ \E t \in Threads : GenCheck(t) /\ UNCHANGED agentVars
    \/ \E t \in Threads : GenReadModel(t) /\ UNCHANGED agentVars
    \/ \E t \in Threads : GenReadTokenizer(t) /\ UNCHANGED agentVars
    \/ \E t \in Threads : GenReadDevice(t) /\ UNCHANGED agentVars
    \/ \E t \in Threads : GenInfer(t) /\ UNCHANGED agentVars

CacheSpec == CacheInit /\ [][CacheNext]_vars

\* states of model_cache that earlier generate_text calls of the serving process
\* leave behind: as imported, emptied by the clear() of a swap that then failed,
\* holding model m, and holding the id and instance of one model with the
\* tokenizer of another (two interleaved swaps)
LeftCaches ==
    {EmptyCache, Cleared(EmptyCache)}
    \cup {[EmptyCache EXCEPT !["model_id"] = m, !["model"] = m, !["tokenizer"] = m] :
            m \in 1..nModels}
    \cup {[EmptyCache EXCEPT !["model_id"] = 1, !["model"] = 1, !["tokenizer"] = m] :
            m \in 2..nModels}

\* The serving process with its fault handler: the store holds no LLMModel row
\* or the rows 1..MaxModels, the cache is as earlier chat requests left it,
\* requests fault, and each analysis runs on its own thread.
AgentInit ==
    /\ nModels \in {0, MaxModels}
    /\ jobs = <<>>
    /\ launch = Idle
    /\ workers = <<>>
    /\ delivered = NoEvents
    /\ model_cache \in LeftCaches
    /\ th = [t \in AgentThreads |-> ThreadIdle]
    /\ last = [t |-> "chat", m |-> None, res |-> "none", alone |-> TRUE,
               fault |-> FALSE, ev |-> <<>>, snap |-> <<>>, prev |-> NoCall]
    /\ raced = FALSE
    /\ ncalls = 0
    /\ AgentIdle

AgentNext ==
    \/ \E is_http \in BOOLEAN : HandleExceptionCommit(is_http)
    \/ HandleExceptionTrigger
    \/ HandleExceptionReturn
    \/ \E a \in 1..Len(agents) : AgentFetch(a)
    \/ \E a \in 1..Len(agents) : AgentCommitAnalyzing(a)
    \/ \E a \in 1..Len(agents) : AgentReadSource(a)
    \/ \E a \in 1..Len(agents) : AgentSelectModel(a)
    \/ \E a \in 1..Len(agents) : AgentGenerate(a)
    \/ \E a \in 1..Len(agents) : AgentStore(a)
    \/ \E a \in 1..Len(agents) : AgentExcept(a)
    \/ \E t \in AgentThreads : LoadCheckId(t) /\ ReturnToCaller(t)
    \/ \E t \in AgentThreads : LoadCheckModel(t) /\ ReturnToCaller(t)
    \/ \E t \in AgentThreads : LoadEvict(t) /\ ReturnToCaller(t)
    \/ \E t \in AgentThreads : LoadLookup(t) /\ ReturnToCaller(t)
    \/ \E t \in AgentThreads : LoadPrintDevice(t) /\ ReturnToCaller(t)
    \/ \E t \in AgentThreads : LoadTokenizer(t) /\ ReturnToCaller(t)
    \/ \E t \in AgentThreads : LoadInstance(t) /\ ReturnToCaller(t)
    \/ \E t \in AgentThreads : LoadSetId(t) /\ ReturnToCaller(t)
    \/ \E t \in AgentThreads : LoadSetModel(t) /\ ReturnToCaller(t)
    \/ \E t \in AgentThreads : LoadSetTokenizer(t) /\ ReturnToCaller(t)
    \/ \E t \in AgentThreads : GenCheck(t) /\ ReturnToCaller(t)
    \/ \E t \in AgentThreads : GenReadModel(t) /\ ReturnToCaller(t)
    \/ \E t \in AgentThreads : GenReadTokenizer(t) /\ ReturnToCaller(t)
    \/ \E t \in AgentThreads : GenReadDevice(t) /\ ReturnToCaller(t)
    \/ \E t \in AgentThreads : GenInfer(t) /\ ReturnToCaller(t)

AgentSpec == AgentInit /\ [][AgentNext]_vars

\* Each analysis thread, and the request thread in the fault handler, is run
\* by the interpreter until it returns.
AgentFairSpec == AgentSpec /\ WF_vars(AgentNext)

\* The parse of a response: generate_text has just returned some text to the
\* analysis of error 1, which is committed as analyzing.
ParseInit ==
    /\ nModels = MaxModels
    /\ jobs = <<>>
    /\ launch = Idle
    /\ workers = <<>>
    /\ delivered = NoEvents
    /\ model_cache = [EmptyCache EXCEPT !["model_id"] = 1, !["model"] = 1, !["tokenizer"] = 1]
    /\ th = [t \in AgentThreads |-> ThreadIdle]
    /\ last = [t |-> AgentThread(1), m |-> 1, res |-> "ok", alone |-> TRUE,
               fault |-> FALSE, ev |-> <<>>, snap |-> <<>>, prev |-> NoCall]
    /\ raced = FALSE
    /\ ncalls = 0
    /\ errors = <<AnalyzingRecord(NewError)>>
    /\ handler = HandlerIdle
    /\ \E llm_response \in Texts :
          agents = <<[NewAgent(1) EXCEPT !.pc = "L67", !.resp = llm_response]>>

ParseNext == \E a \in 1..Len(agents) : AgentStore(a)

ParseSpec == ParseInit /\ [][ParseNext]_vars

\* A worker started from a command line (training_service.py <job_id> ..):
\* the table holds MaxJobs pending rows and the id on the command line is one
\* of theirs or MaxJobs + 1, which has no row.
PendingRows ==
    {NewJob(d.model_id, d.dataset_id,
            [num_train_epochs |-> d.num_train_epochs,
             per_device_train_batch_size |-> d.per_device_train_batch_size]) :
        d \in Payloads}
CommandLines == {NewWorker(j, d) : j \in 1..(MaxJobs + 1), d \in Payloads}
StrayInit ==
    /\ nModels = MaxModels
    /\ jobs \in [1..MaxJobs -> PendingRows]
    /\ launch = Idle
    /\ workers \in {<<c>> : c \in CommandLines}
    /\ delivered = NoEvents
    /\ CacheIdle
    /\ AgentIdle

StrayNext ==
    \/ \E w \in 1..Len(workers) : WorkerFetchJob(w)
    \/ \E w \in 1..Len(workers) : WorkerCommitRunning(w)
    \/ \E w \in 1..Len(workers) : WorkerLoadModel(w)
    \/ \E w \in 1..Len(workers) : WorkerLoadDataset(w)
    \/ \E w \in 1..Len(workers) : WorkerLoadEval(w)
    \/ \E w \in 1..Len(workers) : WorkerConfigure(w)
    \/ \E w \in 1..Len(workers) : WorkerMakeCallback(w)
    \/ \E w \in 1..Len(workers) : WorkerExcept(w)

StraySpec == StrayInit /\ [][StrayNext]_vars

(* =============================================================== claims *)
Terminal == {"completed", "failed"}
StatusRank(st) == IF st = "pending" THEN 0 ELSE IF st = "running" THEN 1 ELSE 2
WorkerEnded(w) == workers[w].pc \in {"exited", "crashed"}
StoredMetrics(j) == IF IsNull(jobs[j].metrics) THEN <<>> ELSE Val(jobs[j].metrics)

\* C1: in every step of the launcher, a worker or the sink, no job's status
\* moves back along pending < running < {completed, failed}, a completed or
\* failed status is not left, a job becomes completed or failed only from
\* running, and a new row starts pending.
C1_StatusStep ==
    /\ Len(jobs') >= Len(jobs)
    /\ \A j \in 1..Len(jobs') :
         IF j \in 1..Len(jobs)
         THEN /\ StatusRank(jobs'[j].status) >= StatusRank(jobs[j].status)
              /\ jobs[j].status \in Terminal => jobs'[j].status = jobs[j].status
              /\ (jobs'[j].status \in Terminal /\ jobs'[j].status # jobs[j].status)
                    => jobs[j].status = "running"
         ELSE jobs'[j].status = "pending"
C1_StatusForward == [][C1_StatusStep]_vars
\* a worker has moved its job from pending to running and gone on
C1_Witness ==
    \E w \in 1..Len(workers) :
        /\ workers[w].pc = "setup_dataset"
        /\ jobs[workers[w].job_id].status = "running"

\* C2: once an exception raised after the record was found has been handled,
\* the worker has returned from its handler (it did not die of an exception),
\* the job is failed and the error text is the last line of logs.
C2_ExceptionEndsFailed ==
    \A w \in 1..Len(workers) :
        (workers[w].exc # "none" /\ workers[w].pc # "except")
            => /\ workers[w].pc = "exited"
               /\ jobs[workers[w].job_id].status = "failed"
               /\ ~IsNull(jobs[workers[w].job_id].logs)
               /\ \E i \in 1..Len(Val(jobs[workers[w].job_id].logs)) :
                      Val(jobs[workers[w].job_id].logs)[i][1] = "ERROR:"

\* C3: a worker that has ended, for a job whose model and dataset exist and
\* whose setup and training raised no error, has left the job completed, with
\* the completion line last in logs and one metrics entry per progress event.
C3_EndsCompleted ==
    \A w \in 1..Len(workers) :
        (/\ WorkerEnded(w)
         /\ ~workers[w].fault
         /\ ModelExists(jobs[workers[w].job_id].model_id)
         /\ DatasetExists(jobs[workers[w].job_id].dataset_id))
            => LET j == workers[w].job_id
               IN  /\ jobs[j].status = "completed"
                   /\ ~IsNull(jobs[j].logs)
                   /\ Val(jobs[j].logs)[Len(Val(jobs[j].logs))][1]
                          = "Training finished successfully. Model saved to"
                   /\ Len(StoredMetrics(j)) = Len(delivered[j])

\* C4: in every committed state of every job row, completed_at is set if and
\* only if status is completed.
C4_CompletedAtIffCompleted ==
    \A j \in 1..Len(jobs) : ~IsNull(jobs[j].completed_at) <=> jobs[j].status = "completed"
\* a worker has ended and its job's row is committed with a status past pending
C4_Witness ==
    \E w \in 1..Len(workers) :
        /\ WorkerEnded(w)
        /\ jobs[workers[w].job_id].status # "pending"
        /\ IsNull(jobs[workers[w].job_id].completed_at)

\* C5: after the progress callbacks delivered to a job's sink, the stored
\* metrics are exactly the callbacks' field maps, in invocation order.
C5_MetricsAreDelivered ==
    \A j \in 1..Len(jobs) : StoredMetrics(j) = delivered[j]
\* several callbacks with different field maps were delivered to one sink
C5_Witness ==
    \E j \in 1..Len(jobs) :
        /\ Len(delivered[j]) >= 3
        /\ delivered[j][1] # delivered[j][2]
        /\ delivered[j][2] = delivered[j][3]

AllIdle == \A t \in Threads : ~InFlight(t)
\* the check-slot / evict / load / update-slot sequence of load_model (68-88)
InSwap(t) == th[t].pc \in {"L68", "L69", "L73", "L77", "L80", "L81", "L86", "L87", "L88"}
SlotKeys == {"model_id", "model", "tokenizer"}
\* the model rows the slot's fields refer to
SlotModels(d) == {d[k] : k \in SlotKeys \cap DOMAIN d} \ {None}

\* C6: the load-and-swap sequences of two threads asking for different model
\* ids do not interleave, and outside such a sequence the slot's id, instance
\* and tokenizer are of one model row (or all None).
C6_SwapIsCriticalSection ==
    /\ \A t1, t2 \in Threads :
          (t1 # t2 /\ th[t1].m # th[t2].m) => ~(InSwap(t1) /\ InSwap(t2))
    /\ (\A t \in Threads : ~InSwap(t))
          => \E m \in ModelIds \cup {None} :
                 \A k \in SlotKeys \cap DOMAIN model_cache : model_cache[k] = m

\* C7: in a process whose calls ran one after the other, after two requests,
\* for registered model A and then for a different registered model B, with no
\* load or inference fault, the second has succeeded, the slot holds B, and
\* the second call evicted A and then loaded B.
C7_SecondModelReplacesFirst ==
    (/\ AllIdle /\ ~raced /\ last.res # "none" /\ ~last.fault
     /\ last.prev.res = "ok"
     /\ ModelExists(last.prev.m) /\ ModelExists(last.m) /\ last.m # last.prev.m)
        => /\ last.res = "ok"
           /\ SlotHolds(model_cache, last.m)
           /\ last.ev = << <<"evict">>, <<"load">> >>

\* C8: in a process whose calls ran one after the other, a request for a model
\* id with no row ends with NotFound and leaves the cache as it was when the
\* call began.
C8_NotFoundLeavesSlot ==
    (AllIdle /\ ~raced /\ last.res # "none" /\ ~ModelExists(last.m))
        => /\ last.res = "NotFound"
           /\ model_cache = Val(last.snap)

\* C9: a call that finds the slot holding its model id (no other call in
\* flight) does no lookup, no eviction and no load and leaves the cache as it
\* was; so the second of two calls in a row for one id loads nothing.
C9_CachedIdIsNoop ==
    (/\ AllIdle /\ last.res # "none" /\ last.alone
     /\ HasKey(Val(last.snap), "model_id") /\ Val(last.snap)["model_id"] = last.m)
        => /\ last.ev = <<>>
           /\ last.res \notin {"NotFound", "LoadFailure"}
           /\ model_cache = Val(last.snap)
\* the same id was asked for twice in a row: the first call loaded it once,
\* the second succeeded on the cached model
C9_Witness ==
    /\ AllIdle /\ last.alone /\ last.res = "ok"
    /\ last.prev.alone /\ last.prev.res = "ok" /\ last.prev.m = last.m
    /\ last.prev.loads = 1 /\ last.ev = <<>>
    /\ SlotHolds(model_cache, last.m)

\* C10: a thread that starts loading (80-84) with no other call in flight
\* finds the slot without a model instance, and outside load-and-swap the slot's
\* fields never refer to two model rows.
C10_OneModelResident ==
    /\ \A t \in Threads :
          (th[t].pc \in {"L80", "L81"} /\ th[t].alone)
              => (~HasKey(model_cache, "model") \/ model_cache["model"] = None)
    /\ (\A t \in Threads : ~InSwap(t)) => Cardinality(SlotModels(model_cache)) <= 1

AnalysisTerminal == {"analyzed", "analysis_failed"}
ErrorOf(a) == errors[agents[a].error_id]

\* C11: once an analysis in which an exception was raised (no model registered,
\* load failure, generation failure, or any other exception of generate_text)
\* has left its handler, analyze_error has returned (no exception left it), the
\* error's status is analysis_failed and analysis holds the failure trace.
C11_FailureEndsAnalysisFailed ==
    \A a \in 1..Len(agents) :
        (agents[a].exc # "none" /\ agents[a].pc # "L84")
            => /\ agents[a].pc = "returned"
               /\ ErrorOf(a).status = "analysis_failed"
               /\ ErrorOf(a).analysis = Some(<<"Failed to complete analysis.", agents[a].exc>>)
\* an analysis whose model failed to load has left its handler
C11_Witness ==
    \E a \in 1..Len(agents) :
        /\ agents[a].pc \notin {"L84", "in_generate"} /\ agents[a].exc = "LoadFailure"
        /\ ErrorOf(a).analysis = Some(<<"Failed to complete analysis.", "LoadFailure">>)

\* C12: every analysis that was triggered leads to a terminal status of its
\* CapturedError, analyzed or analysis_failed, whatever the cache held.
C12_AnalysisTerminates ==
    \A a \in 1..MaxErrors :
        (a <= Len(agents)) ~> (a <= Len(agents) /\ ErrorOf(a).status \in AnalysisTerminal)
\* an analysis that found the cache emptied by an earlier swap has ended: its
\* generate_text call raised KeyError and the error is analysis_failed
C12_Witness ==
    \E a \in 1..Len(agents) :
        /\ agents[a].pc = "returned" /\ agents[a].exc = "KeyError"
        /\ ErrorOf(a).status = "analysis_failed"

\* C13: a CapturedError starts new and its status only steps new -> analyzing
\* -> analyzed or analysis_failed; an analysis that is at or past the model
\* selection has committed analyzing (or a later status); and an analyzed error
\* has both analysis and proposed_fix stored.
C13_StatusStep ==
    /\ Len(errors') >= Len(errors)
    /\ \A e \in 1..Len(errors') :
         /\ IF e \in 1..Len(errors)
            THEN \/ errors'[e].status = errors[e].status
                 \/ errors[e].status = "new" /\ errors'[e].status = "analyzing"
                 \/ errors[e].status = "analyzing" /\ errors'[e].status \in AnalysisTerminal
            ELSE errors'[e].status = "new"
         /\ errors'[e].status = "analyzed"
               => ~IsNull(errors'[e].analysis) /\ ~IsNull(errors'[e].proposed_fix)
    /\ \A a \in 1..Len(agents') :
         agents'[a].pc \in {"L34", "G64", "in_generate", "L67"}
            => errors'[agents'[a].error_id].status = "analyzing"
C13_StatusOrder == [][C13_StatusStep]_vars
\* an analysis has ended with the error analyzed and both fields stored
C13_Witness ==
    \E a \in 1..Len(agents) :
        /\ agents[a].pc = "returned"
        /\ ErrorOf(a).status = "analyzed"
        /\ ~IsNull(ErrorOf(a).analysis) /\ ~IsNull(ErrorOf(a).proposed_fix)

HasMarker(s) == Contains(s, MarkerE) \/ Contains(s, MarkerP)
\* the analysis a has stored the parse of its response
Stored(a) == agents[a].pc = "returned" /\ agents[a].exc = "none" /\ agents[a].resp \in Texts

\* C14: after the parse of a response without PROPOSED_FIX:, the error is
\* analyzed, proposed_fix is the placeholder and analysis is the whole response
\* without EXPLANATION: (white space at its ends aside), whether or not the
\* response holds EXPLANATION:.
C14_NoFixMarkerKeepsWholeText ==
    \A a \in 1..Len(agents) :
        (Stored(a) /\ ~Contains(agents[a].resp, MarkerP))
            => /\ ErrorOf(a).status = "analyzed"
               /\ ErrorOf(a).proposed_fix = Some(NoFix)
               /\ ErrorOf(a).analysis = Some(Strip(Replace(agents[a].resp, MarkerE)))

\* C15: after the parse of a response holding both markers, analysis is the
\* text before PROPOSED_FIX: and proposed_fix the text after it (white space at
\* the ends aside), and neither stored field holds a marker.
C15_BothMarkersSplitClean ==
    \A a \in 1..Len(agents) :
        (Stored(a) /\ Contains(agents[a].resp, MarkerP) /\ Contains(agents[a].resp, MarkerE))
            => /\ ErrorOf(a).status = "analyzed"
               /\ ErrorOf(a).analysis =
                     Some(Strip(Replace(Split1(agents[a].resp, MarkerP)[1], MarkerE)))
               /\ ErrorOf(a).proposed_fix = Some(Strip(Split1(agents[a].resp, MarkerP)[2]))
               /\ ~HasMarker(Val(ErrorOf(a).analysis))
               /\ ~HasMarker(Val(ErrorOf(a).proposed_fix))

WorkersOf(j) == {w \in 1..Len(workers) : workers[w].job_id = j}
PayloadSettings(data) == [num_train_epochs |-> data.num_train_epochs,
                          per_device_train_batch_size |-> data.per_device_train_batch_size]

\* C16: between the commit of a submit and its spawn the job row exists, is
\* pending, holds the submitted settings and has no worker; every worker's job
\* row exists and holds the settings the worker was started with; no job has two
\* workers; and once the submit has spawned, its job has exactly one worker.
C16_CommitThenOneWorker ==
    /\ launch.pc = "committed"
          => /\ JobExists(launch.job_id)
             /\ jobs[launch.job_id].status = "pending"
             /\ jobs[launch.job_id].settings = PayloadSettings(Val(launch.data))
             /\ WorkersOf(launch.job_id) = {}
    /\ \A w \in 1..Len(workers) :
          /\ JobExists(workers[w].job_id)
          /\ WJob(w).settings = PayloadSettings(workers[w])
          /\ workers[w].pc = "exited" => workers[w].exc # "none"
    /\ \A j \in 1..Len(jobs) :
          /\ Cardinality(WorkersOf(j)) <= 1
          /\ (launch.pc # "committed" \/ launch.job_id # j) => Cardinality(WorkersOf(j)) = 1
\* the spawned worker has fetched its row while the submit has not returned yet
C16_Witness ==
    /\ launch.pc = "spawned"
    /\ \E w \in 1..Len(workers) :
          /\ workers[w].job_id = launch.job_id
          /\ workers[w].pc = "found"
          /\ WJob(w).settings.num_train_epochs = 2

\* C17: a submit that has spawned its worker can return whatever the worker's
\* position is, and the job's status is pending or running (so a query made
\* right after the return never observes completed).
C17_ReturnDoesNotWait ==
    /\ launch.pc = "spawned" => ENABLED StartJobReturn
    /\ launch.pc \in {"spawned", "idle"}
          => \A j \in 1..Len(jobs) : jobs[j].status \in {"pending", "running"}
\* the submit has returned and its worker has not made a step: the job is pending
C17_Witness ==
    /\ launch.pc = "idle"
    /\ \E w \in 1..Len(workers) : workers[w].pc = "start" /\ WJob(w).status = "pending"

\* C18: a worker that has ended, for a job whose model exists and whose dataset
\* id has no Dataset row, has left the job failed with the error in logs; and
\* the metrics of such a job are empty in every state.
C18_MissingDatasetEndsFailed ==
    \A w \in 1..Len(workers) :
        (JobExists(workers[w].job_id) /\ ModelExists(WJob(w).model_id)
         /\ ~DatasetExists(WJob(w).dataset_id))
            => /\ StoredMetrics(workers[w].job_id) = <<>>
               /\ WorkerEnded(w)
                     => /\ WJob(w).status = "failed"
                        /\ ~IsNull(WJob(w).logs)
                        /\ \E i \in 1..Len(Val(WJob(w).logs)) :
                               Val(WJob(w).logs)[i][1] = "ERROR:"

\* C19: a worker that is loading the model, the tokenizer or a dataset, or
\* that failed or died after it found its row, has a job row whose committed
\* status is not pending and whose logs begin with the start marker.
C19_RunningBeforeSetup ==
    \A w \in 1..Len(workers) :
        (\/ workers[w].pc \in {"setup_model", "setup_dataset", "setup_eval", "configure",
                               "callback", "trainer", "except", "crashed"}
         \/ workers[w].exc # "none")
            => /\ WJob(w).status # "pending"
               /\ ~IsNull(WJob(w).logs)
               /\ Val(WJob(w).logs)[1] = StartLine
\* the load of the base model has raised and the row reads running
C19_Witness ==
    \E w \in 1..Len(workers) :
        /\ workers[w].pc = "except" /\ workers[w].exc = "OSError"
        /\ WJob(w).status = "running"
        /\ Val(WJob(w).logs) = <<StartLine>>

CacheKeys == {"model_id", "model", "tokenizer", "device"}
\* C20: when no call is in flight the cache holds its four keys and its
\* device; and after calls that ran one after the other, a call for a
\* registered model with no load or inference fault has succeeded and left the
\* slot holding that model.
C20_CacheKeepsDeviceAndKeys ==
    AllIdle
        => /\ DOMAIN model_cache = CacheKeys
           /\ model_cache["device"] = Device
           /\ (~raced /\ last.res # "none" /\ ModelExists(last.m) /\ ~last.fault)
                 => last.res = "ok" /\ SlotHolds(model_cache, last.m)

\* C21: a thread that runs inference (107-110) for model_id, holding a model
\* instance and a tokenizer it read from the slot, holds the instance and the
\* tokenizer loaded from the artifact of model_id, whatever other threads did
\* to the slot since this call's load.
C21_InferenceUsesOwnModel ==
    \A t \in DOMAIN th :
        (th[t].pc = "G107" /\ th[t].g_model # None /\ th[t].g_tokenizer # None)
            => th[t].g_model = th[t].m /\ th[t].g_tokenizer = th[t].m

LogLines(job) == IF IsNull(job.logs) THEN <<>> ELSE Val(job.logs)
\* the rendered progress events among the lines of a job's logs
ProgressLines(job) ==
    {i \in 1..Len(LogLines(job)) : LogLines(job)[i][1] = "str(logs)"}
MetricsOf(job) == IF IsNull(job.metrics) THEN <<>> ELSE Val(job.metrics)
IsPrefix(s, t) == Len(s) <= Len(t) /\ SubSeq(t, 1, Len(s)) = s

\* C22: in every step, a row whose metrics or progress lines change is running
\* before and after the step, a completed or failed row is not changed at all,
\* and a pending row (a newly created one included) has no metrics entry.
C22_WrittenOnlyWhileRunning ==
    /\ Len(jobs') >= Len(jobs)
    /\ \A j \in 1..Len(jobs') : jobs'[j].status = "pending" => MetricsOf(jobs'[j]) = <<>>
    /\ \A j \in 1..Len(jobs) :
          /\ jobs[j].status \in Terminal => jobs'[j] = jobs[j]
          /\ (\/ MetricsOf(jobs'[j]) # MetricsOf(jobs[j])
              \/ Cardinality(ProgressLines(jobs'[j])) # Cardinality(ProgressLines(jobs[j])))
                => jobs[j].status = "running" /\ jobs'[j].status = "running"
C23_AppendStep ==
    \A j \in 1..Len(jobs) :
        jobs[j].status = "running"
            => /\ IsPrefix(LogLines(jobs[j]), LogLines(jobs'[j]))
               /\ IsPrefix(MetricsOf(jobs[j]), MetricsOf(jobs'[j]))
               /\ Len(MetricsOf(jobs'[j])) - Len(MetricsOf(jobs[j])) \in {0, 1}
               /\ Cardinality(ProgressLines(jobs'[j])) - Cardinality(ProgressLines(jobs[j]))
                     = Len(MetricsOf(jobs'[j])) - Len(MetricsOf(jobs[j]))
               /\ Len(LogLines(jobs'[j])) - Len(LogLines(jobs[j]))
                     = Len(MetricsOf(jobs'[j])) - Len(MetricsOf(jobs[j]))
               /\ Cardinality(ProgressLines(jobs'[j])) = Len(MetricsOf(jobs'[j]))
C23_LogsAppendOnly == [][C23_AppendStep]_vars
\* three progress events were stored after the two lines written before training
C23_Witness ==
    \E j \in 1..Len(jobs) :
        /\ Len(MetricsOf(jobs[j])) = 3
        /\ Len(LogLines(jobs[j])) = 5
        /\ LogLines(jobs[j])[1] = StartLine /\ LogLines(jobs[j])[2] = TrainerLine

\* the evaluation dataset a worker past lines 110-119 holds (0: none)
EvalInput(w) ==
    IF workers[w].eval_dataset_id # 0 /\ DatasetExists(workers[w].eval_dataset_id)
    THEN workers[w].eval_dataset_id ELSE 0
\* the evaluation dataset id a job row holds (0: none)
RecordEval(job) ==
    IF "eval_dataset_id" \in DOMAIN job THEN job.eval_dataset_id
    ELSE IF "eval_dataset_id" \in DOMAIN job.settings THEN job.settings.eval_dataset_id
    ELSE 0

\* C24: a worker that has loaded its inputs (the model and the training
\* dataset are read through the row) holds the epoch count and the batch size
\* of the row's settings and the evaluation dataset the row holds.
C24_InputsFromRecord ==
    \A w \in 1..Len(workers) :
        (JobExists(workers[w].job_id)
         /\ workers[w].pc \in {"configure", "callback", "trainer"})
            => /\ workers[w].num_train_epochs = WJob(w).settings.num_train_epochs
               /\ workers[w].per_device_train_batch_size
                     = WJob(w).settings.per_device_train_batch_size
               /\ EvalInput(w) = RecordEval(WJob(w))

AgentsOf(e) == {a \in 1..Len(agents) : agents[a].error_id = e}

\* C25: when the handler is about to trigger the analysis, the CapturedError
\* is committed with status new and has no analysis thread yet; every analysis
\* thread's error row exists; the analysis is a thread of its own, in th, and
\* the handler that has triggered it can return whatever its position is.
C25_CommitTriggerReturn ==
    /\ handler.pc = "L317"
          => /\ ErrorExists(handler.error_id)
             /\ errors[handler.error_id] = NewError
             /\ AgentsOf(handler.error_id) = {}
    /\ \A a \in 1..Len(agents) :
          /\ ErrorExists(agents[a].error_id)
          /\ AgentThread(a) \in DOMAIN th
    /\ handler.pc = "L318" => ENABLED HandleExceptionReturn
\* the handler has returned and the analysis has not made a step: the error is new
C25_Witness ==
    /\ handler.pc = "idle"
    /\ \E a \in 1..Len(agents) : agents[a].pc = "L15" /\ ErrorOf(a).status = "new"

\* C26: a CapturedError row is added exactly in the steps in which the handler
\* takes up a non-HTTP fault, one row per step; an analysis thread is started
\* exactly in the handler's trigger step, for the row of that fault; no step
\* of an analysis thread, failing or not, adds a row or a thread; every error
\* has one analysis once its handler has triggered it, and never two.
C26_Step ==
    /\ Len(errors') \in {Len(errors), Len(errors) + 1}
    /\ Len(errors') = Len(errors) + 1 <=> (handler.pc = "idle" /\ handler'.pc = "L317")
    /\ Len(agents') \in {Len(agents), Len(agents) + 1}
    /\ Len(agents') = Len(agents) + 1 <=> (handler.pc = "L317" /\ handler'.pc = "L318")
    /\ Len(agents') = Len(agents) + 1 => agents'[Len(agents')].error_id = handler.error_id
    /\ \A e \in 1..Len(errors') :
          LET n == Cardinality({a \in 1..Len(agents') : agents'[a].error_id = e})
          IN  IF handler'.pc = "L317" /\ handler'.error_id = e THEN n = 0 ELSE n = 1
C26_OneErrorOneAnalysisPerFault == [][C26_Step]_vars
\* the analysis of a fault has failed and ended: there is one error, one thread
C26_Witness ==
    /\ Len(errors) = 1 /\ Len(agents) = 1
    /\ agents[1].pc = "returned" /\ agents[1].exc = "GenerationFailure"
    /\ errors[1].status = "analysis_failed"

\* C27: the step of a thread at the model call (107-110) ends its
\* generate_text invocation: the thread is idle afterwards (the call is not
\* made again), its caller is handed the text or GenerationFailure, and the
\* cache is as it was before the step.
C27_Step ==
    \A t \in DOMAIN th :
        (th[t].pc = "G107" /\ th'[t].pc # "G107")
            => /\ th'[t].pc = "idle"
               /\ last'.t = t /\ last'.m = th[t].m
               /\ last'.res \in {"ok", "GenerationFailure"}
               /\ model_cache' = model_cache
C27_OneModelCallNoRetry == [][C27_Step]_vars
\* a call made alone loaded its model, the model call raised, and the slot
\* still holds the model
C27_Witness ==
    /\ AllIdle /\ last.alone
    /\ last.res = "GenerationFailure" /\ last.fault
    /\ Loads(last.ev) = 1
    /\ SlotHolds(model_cache, last.m)

\* C28: a worker whose job id has no row only takes the step from its start
\* to its exit (no exception), and that step leaves the table of jobs as it
\* was: no row is added and no field of any row is written.
C28_Step ==
    \A w \in 1..Len(workers) :
        (~JobExists(workers[w].job_id) /\ workers'[w] # workers[w])
            => /\ workers[w].pc = "start"
               /\ workers'[w].pc = "exited" /\ workers'[w].exc = "none"
               /\ jobs' = jobs
C28_MissingJobChangesNothing == [][C28_Step]_vars
\* the worker of an id without a row has exited, and every row is still as
\* it was submitted
C28_Witness ==
    /\ Len(workers) = 1
    /\ ~JobExists(workers[1].job_id)
    /\ workers[1].pc = "exited" /\ workers[1].exc = "none"
    /\ Len(jobs) = MaxJobs
    /\ \A j \in 1..Len(jobs) : jobs[j] \in PendingRows

====
